---- MODULE Spec2Model ----
(***************************************************************************)
(* The on-map measurement engine of nextjs-leaflet-starter: the            *)
(* useMeasurement hook (hooks/useMeasurement.ts), the Leaflet map it draws *)
(* on and the click listeners it registers.                                *)
(*                                                                         *)
(* One action per operation of the hook.  startMeasurement is two steps,   *)
(* because it suspends at `await import('leaflet')`: StartMeasurement runs *)
(* the code before the await, StartResume the code after it.               *)
(*                                                                         *)
(* Numbers: angles are fixed-point micro-radians (Scale), distances are    *)
(* metres, areas are square kilometres (square metres do not fit the      *)
(* model's 32-bit integers).                                               *)
(***************************************************************************)
EXTENDS Integers, Sequences, FiniteSets, TLC

VARIABLES
    map,          \* TRUE once useLeafletMap() returns the map instance
    mode,         \* React state `mode`: "null", "distance" or "area"
    points,       \* React state `points`: sequence of [latlng, marker]
    distance,     \* React state `distance` (metres)
    area,         \* React state `area` (square kilometres)
    polylineRef,  \* polylineRef.current: a layer id, or NoLayer
    polygonRef,   \* polygonRef.current: a layer id, or NoLayer
    markersRef,   \* markersRef.current: sequence of marker layer ids
    layers,       \* the layers on the map: id -> [kind, latlngs]
    handlers,     \* the map's 'click' listeners in registration order,
                  \* each the measurementMode its closure captured
    cursor,       \* map.getContainer().style.cursor
    pending,      \* startMeasurement calls suspended at the await (FIFO)
    otherListeners, \* click listeners other components registered on the map
    isOpen,       \* MapMain's isMeasurementOpen: the panel is shown
    lastMeasurement, \* the panel's saved measurement [type, value]
    lastOp        \* history: the operation that produced this state

vars == <<map, mode, points, distance, area, polylineRef, polygonRef,
          markersRef, layers, handlers, cursor, pending, otherListeners,
          isOpen, lastMeasurement, lastOp>>

----------------------------------------------------------------------------
(* Bounds of the model *)

MaxMarkers == 3
MaxPending == 2
MaxOtherListeners == 1
(* How many times React evaluates one state updater: once, or twice when   *)
(* StrictMode double-invokes it in a development build.                    *)
EvalCounts == {1, 2}

NullMode == "null"
(* The panel's lastMeasurement when it is null *)
NoMeasurement == [type |-> "null", value |-> 0]
Modes == {"distance", "area"}
NoLayer == 0

(* Clicked coordinates <<lat, lng>> in whole degrees *)
Coords == {<<0, 0>>, <<0, 1>>, <<1, 1>>}

(* Coordinates of the point lists the geodesic functions are applied to    *)
RingCoords == Coords \cup {<<1, 0>>, <<-1, 1>>}
(* The longest such point list *)
MaxRing == 4

----------------------------------------------------------------------------
(* Val({F(x) : x \in {e}}) is F(e) with e evaluated once: the operators    *)
(* below name their intermediate results this way.                         *)
Val(singleton) == CHOOSE v \in singleton : TRUE

----------------------------------------------------------------------------
(* Fixed-point arithmetic standing for the Math.* calls of the source *)

Scale == 1000000
PiOver180 == 17453
EarthRadiusKm == 6371

Abs(x) == IF x < 0 THEN -x ELSE x
Sgn(x) == IF x < 0 THEN -1 ELSE 1

(* a * b / Scale for a, b >= 0 without leaving 32 bits *)
MulS(a, b) == (a * (b \div 1000)) \div 1000 + (a * (b % 1000)) \div Scale

DegToRad(d) == d * PiOver180

(* x / 2, rounding toward zero *)
Half(x) == Sgn(x) * (Abs(x) \div 2)

(* Math.sin, Math.cos: Taylor polynomials, exact to the scale for the      *)
(* angles of Coords; Sin is odd, Cos is even                               *)
SinPos(y) ==
    Val({Val({y - y3 \div 6 + MulS(y3, y2) \div 120 : y3 \in {MulS(y2, y)}})
         : y2 \in {MulS(y, y)}})

Sin(x) == Sgn(x) * SinPos(Abs(x))

CosPos(y) ==
    Val({Scale - y2 \div 2 + MulS(y2, y2) \div 24 : y2 \in {MulS(y, y)}})

Cos(x) == CosPos(Abs(x))

RECURSIVE SqrtIter(_, _)
SqrtIter(n, x) ==
    Val({IF y >= x THEN x ELSE SqrtIter(n, y) : y \in {(x + n \div x) \div 2}})

(* Math.sqrt: floor of the square root of a natural number *)
ISqrt(n) == IF n <= 0 THEN 0 ELSE SqrtIter(n, IF n < 46340 THEN n ELSE 46340)

(* Math.atan2(y, x) for 0 <= y < x, in micro-radians *)
AtanPos(t) ==
    Val({Val({t - t3 \div 3 + MulS(t3, t2) \div 5 : t3 \in {MulS(t2, t)}})
         : t2 \in {MulS(t, t)}})

Atan2(y, x) == AtanPos((y * 10000) \div (x \div 100))

----------------------------------------------------------------------------
(* Geodesic computation *)

Lat(c) == c[1]
Lng(c) == c[2]

(* the haversine term a, scaled by Scale * Scale *)
HaversineA(s1, s2, cc) == s1 * s1 + s2 * MulS(s2, cc)

(* The central angle without the factor 2 *)
CentralAngleSingle(a) ==
    Atan2(ISqrt(a), 100 * ISqrt((Scale - a \div Scale) * 100))

(* c = 2 * atan2(sqrt(a), sqrt(1 - a)), in micro-radians *)
CentralAngle(a) ==
    2 * Atan2(ISqrt(a), 100 * ISqrt((Scale - a \div Scale) * 100))

(* calculateDistance: haversine distance in metres *)
calculateDistance(latlng1, latlng2) ==
    Val({(CentralAngle(a) * EarthRadiusKm) \div 1000 :
         a \in {HaversineA(
                  Abs(Sin(Half(DegToRad(Lat(latlng2) - Lat(latlng1))))),
                  Abs(Sin(Half(DegToRad(Lng(latlng2) - Lng(latlng1))))),
                  MulS(Cos(DegToRad(Lat(latlng1))),
                       Cos(DegToRad(Lat(latlng2)))))}})

(* the distance of every pair of coordinates *)
DistanceOf == [p \in RingCoords \X RingCoords |-> calculateDistance(p[1], p[2])]

RECURSIVE SumDistance(_, _)
SumDistance(pts, i) ==
    IF i >= Len(pts) THEN 0
    ELSE DistanceOf[<<pts[i].latlng, pts[i + 1].latlng>>]
         + SumDistance(pts, i + 1)

(* calculateTotalDistance: the loop over consecutive pairs *)
calculateTotalDistance(pts) == SumDistance(pts, 1)

(* The shoelace term with the sign of its second product flipped *)
ShoelaceTermPlus(ci, cj) ==
    DegToRad(Lng(ci)) * Sin(DegToRad(Lat(cj)))
        + DegToRad(Lng(cj)) * Sin(DegToRad(Lat(ci)))

(* one term of the shoelace sum: xi * sin(yj) - xj * sin(yi) *)
ShoelaceTerm(ci, cj) ==
    DegToRad(Lng(ci)) * Sin(DegToRad(Lat(cj)))
        - DegToRad(Lng(cj)) * Sin(DegToRad(Lat(ci)))

(* The shoelace sum over an open path: the last point has no successor *)
RECURSIVE SumShoelaceOpen(_, _)
SumShoelaceOpen(pts, i) ==
    IF i >= Len(pts) THEN 0
    ELSE ShoelaceTerm(pts[i].latlng, pts[i + 1].latlng)
         + SumShoelaceOpen(pts, i + 1)

RECURSIVE SumShoelace(_, _)
SumShoelace(pts, i) ==
    IF i > Len(pts) THEN 0
    ELSE ShoelaceTerm(pts[i].latlng, pts[(i % Len(pts)) + 1].latlng)
         + SumShoelace(pts, i + 1)

(* calculateArea: shoelace sum over the closed ring, in square kilometres *)
calculateArea(pts) ==
    IF Len(pts) < 3 THEN 0
    ELSE ((Abs(SumShoelace(pts, 1)) \div 10000)
            * ((EarthRadiusKm * EarthRadiusKm) \div 10000)) \div 20000

----------------------------------------------------------------------------
(* The hook's state as one record, so that operations compose *)

Cur ==
    [map |-> map, mode |-> mode, points |-> points, distance |-> distance,
     area |-> area, polylineRef |-> polylineRef, polygonRef |-> polygonRef,
     markersRef |-> markersRef, layers |-> layers, handlers |-> handlers,
     cursor |-> cursor, pending |-> pending,
     otherListeners |-> otherListeners]

Range(f) == {f[i] : i \in DOMAIN f}

LatLngsOf(pts) == [i \in 1..Len(pts) |-> pts[i].latlng]

(* Layer objects some reference still reaches *)
UsedIds(S) ==
    DOMAIN S.layers \cup Range(S.markersRef)
        \cup {S.points[i].marker : i \in 1..Len(S.points)}
        \cup {S.polylineRef, S.polygonRef}

(* A new object is distinct from every object still referenced *)
FreshId(S) ==
    Val({CHOOSE id \in 1..(Cardinality(used) + 1) :
            /\ id \notin used
            /\ \A k \in 1..(id - 1) : k \in used
         : used \in {UsedIds(S)}})

(* The circle markers on the map *)
MarkersOnMap(S) == {id \in DOMAIN S.layers : S.layers[id].kind = "marker"}

(* map.hasLayer, map.removeLayer, layer.addTo(map), layer.setLatLngs *)
hasLayer(S, id) == id \in DOMAIN S.layers

removeLayer(S, id) ==
    [S EXCEPT !.layers = [k \in (DOMAIN S.layers) \ {id} |-> S.layers[k]]]

addLayer(S, id, kind, latlngs) ==
    [S EXCEPT !.layers = [k \in (DOMAIN S.layers) \cup {id} |->
        IF k = id THEN [kind |-> kind, latlngs |-> latlngs]
        ELSE S.layers[k]]]

setLatLngs(S, id, latlngs) ==
    IF hasLayer(S, id)
    THEN [S EXCEPT !.layers[id].latlngs = latlngs]
    ELSE S

----------------------------------------------------------------------------
(* Operations of useMeasurement, as functions of the state record *)

(* A clear that takes only the newest marker off the map *)
RemoveLastMarker(S) ==
    IF S.markersRef = <<>> THEN S
    ELSE [removeLayer(S, S.markersRef[Len(S.markersRef)])
            EXCEPT !.markersRef = SubSeq(@, 1, Len(@) - 1)]

(* clearMeasurement, "Remove all markers": every marker of markersRef that *)
(* is on the map leaves it                                                 *)
RemoveMarkers(S) ==
    [S EXCEPT !.layers =
        [k \in (DOMAIN S.layers) \ Range(S.markersRef) |-> S.layers[k]],
              !.markersRef = <<>>]

(* clearMeasurement, "Remove polyline" *)
RemovePolyline(S) ==
    IF S.polylineRef # NoLayer /\ hasLayer(S, S.polylineRef)
    THEN [removeLayer(S, S.polylineRef) EXCEPT !.polylineRef = NoLayer]
    ELSE S

(* clearMeasurement, "Remove polygon" *)
RemovePolygon(S) ==
    IF S.polygonRef # NoLayer /\ hasLayer(S, S.polygonRef)
    THEN [removeLayer(S, S.polygonRef) EXCEPT !.polygonRef = NoLayer]
    ELSE S

(* clearMeasurement, "Remove click handler" and the four state resets *)
ResetSession(S) ==
    [S EXCEPT !.handlers = <<>>, !.otherListeners = 0, !.cursor = "",
              !.points = <<>>, !.distance = 0, !.area = 0,
              !.mode = NullMode]

clearMeasurement(S) ==
    IF ~S.map THEN S
    ELSE Val({ResetSession(s3) :
              s3 \in {RemovePolygon(s2) :
                      s2 \in {RemovePolyline(s1) :
                              s1 \in {RemoveMarkers(S)}}}})

(* A start that keeps the previous session instead of clearing it *)
startMeasurementKeepsSession(S, measurementMode) ==
    IF ~S.map \/ measurementMode = NullMode THEN S
    ELSE [S EXCEPT !.mode = measurementMode,
                   !.pending = Append(@, measurementMode)]

(* startMeasurement up to `await import('leaflet')` *)
startMeasurement(S, measurementMode) ==
    IF ~S.map \/ measurementMode = NullMode THEN S
    ELSE [clearMeasurement(S) EXCEPT !.mode = measurementMode,
                                     !.pending = Append(@, measurementMode)]

(* startMeasurement after the await: the oldest suspended call goes on *)
startResume(S) ==
    [S EXCEPT !.pending = Tail(@),
              !.handlers = Append(@, Head(S.pending)),
              !.cursor = "crosshair"]

(* handleMapClick's updater, "Draw/update polyline" *)
DrawPolyline(S, latlngs) ==
    IF S.polylineRef # NoLayer
    THEN setLatLngs(S, S.polylineRef, latlngs)
    ELSE Val({[addLayer(S, id, "polyline", latlngs) EXCEPT !.polylineRef = id]
              : id \in {FreshId(S)}})

(* handleMapClick's updater, "Draw/update polygon" *)
DrawPolygon(S, latlngs) ==
    IF S.polygonRef # NoLayer
    THEN setLatLngs(S, S.polygonRef, latlngs)
    ELSE Val({[addLayer(S, id, "polygon", latlngs) EXCEPT !.polygonRef = id]
              : id \in {FreshId(S)}})

(* handleMapClick's updater, "Update distance" *)
AddUpdateDistance(S, updated, measurementMode) ==
    IF measurementMode = "distance" /\ Len(updated) > 1
    THEN Val({DrawPolyline(d, LatLngsOf(updated)) :
              d \in {[S EXCEPT !.distance = calculateTotalDistance(updated)]}})
    ELSE S

(* handleMapClick's updater, "Update area" *)
AddUpdateArea(S, updated, measurementMode) ==
    IF measurementMode = "area" /\ Len(updated) > 2
    THEN Val({DrawPolygon(a, LatLngsOf(updated)) :
              a \in {[S EXCEPT !.area = calculateArea(updated)]}})
    ELSE S

(* The updater handleMapClick passes to setPoints, evaluated on prev: its  *)
(* side effects act on S, its result becomes points                        *)
AddEffects(S, updated, measurementMode) ==
    Val({[s2 EXCEPT !.points = updated] :
         s2 \in {AddUpdateArea(s1, updated, measurementMode) :
                 s1 \in {AddUpdateDistance(S, updated, measurementMode)}}})

addUpdater(S, prev, newPoint, measurementMode) ==
    Val({AddEffects(S, updated, measurementMode) :
         updated \in {Append(prev, newPoint)}})

(* React applies an updater to the state before the update, n times; every *)
(* evaluation's side effects stay, the last result becomes the state       *)
RECURSIVE EvalAdd(_, _, _, _, _)
EvalAdd(S, prev, newPoint, measurementMode, n) ==
    IF n = 0 THEN S
    ELSE Val({EvalAdd(s1, prev, newPoint, measurementMode, n - 1) :
              s1 \in {addUpdater(S, prev, newPoint, measurementMode)}})

(* handleMapClick up to setPoints: the new marker goes on the map and into *)
(* markersRef                                                              *)
AddMarker(S, marker, latlng) ==
    [addLayer(S, marker, "marker", <<latlng>>)
        EXCEPT !.markersRef = Append(@, marker)]

(* handleMapClick from newPoint.marker = marker on *)
NewPoint(S, marker, measurementMode, latlng, n) ==
    Val({EvalAdd(s1, s1.points, [latlng |-> latlng, marker |-> marker],
                 measurementMode, n) :
         s1 \in {AddMarker(S, marker, latlng)}})

(* handleMapClick of a startMeasurement(measurementMode) call *)
handleMapClick(S, measurementMode, latlng, n) ==
    Val({NewPoint(S, marker, measurementMode, latlng, n) :
         marker \in {FreshId(S)}})

(* The updater of a click reaches L.polyline(...) or L.polygon(...): the   *)
(* captured mode has enough points and the overlay does not exist yet      *)
CreatesOverlay(S, measurementMode) ==
    \/ /\ measurementMode = "distance"
       /\ Len(S.points) + 1 > 1
       /\ S.polylineRef = NoLayer
    \/ /\ measurementMode = "area"
       /\ Len(S.points) + 1 > 2
       /\ S.polygonRef = NoLayer

(* handleMapClick when that creation throws: the marker is on the map and  *)
(* in markersRef, the updater is left before `return updated` (it has no   *)
(* try/catch), so points and the overlay refs keep their values            *)
handleMapClickOverlayThrows(S, measurementMode, latlng) ==
    Val({AddMarker(S, marker, latlng) : marker \in {FreshId(S)}})

(* A click on the map: Leaflet calls the listeners in registration order *)
RECURSIVE FireClick(_, _, _, _)
FireClick(S, hs, latlng, n) ==
    IF hs = <<>> THEN S
    ELSE Val({FireClick(s1, Tail(hs), latlng, n) :
              s1 \in {handleMapClick(S, Head(hs), latlng, n)}})

mapClick(S, latlng, n) == FireClick(S, S.handlers, latlng, n)

(* undoLastPoint's updater, "Remove marker" and markersRef.current.pop() *)
UndoRemoveMarker(S, prev) ==
    [(IF prev # <<>> /\ S.map /\ hasLayer(S, prev[Len(prev)].marker)
      THEN removeLayer(S, prev[Len(prev)].marker)
      ELSE S)
        EXCEPT !.markersRef = IF @ = <<>> THEN @ ELSE SubSeq(@, 1, Len(@) - 1)]

(* undoLastPoint's updater, the two branches on mode === 'distance' *)
UndoUpdateDistance(S, updated, m) ==
    IF m = "distance" /\ Len(updated) > 1
    THEN Val({IF d.polylineRef # NoLayer
              THEN setLatLngs(d, d.polylineRef, LatLngsOf(updated))
              ELSE d :
              d \in {[S EXCEPT !.distance = calculateTotalDistance(updated)]}})
    ELSE IF m = "distance" /\ Len(updated) <= 1
    THEN Val({IF S.map THEN RemovePolyline(d) ELSE d :
              d \in {[S EXCEPT !.distance = 0]}})
    ELSE S

(* undoLastPoint's updater, the two branches on mode === 'area' *)
UndoUpdateArea(S, updated, m) ==
    IF m = "area" /\ Len(updated) > 2
    THEN Val({IF a.polygonRef # NoLayer
              THEN setLatLngs(a, a.polygonRef, LatLngsOf(updated))
              ELSE a :
              a \in {[S EXCEPT !.area = calculateArea(updated)]}})
    ELSE IF m = "area" /\ Len(updated) <= 2
    THEN Val({IF S.map THEN RemovePolygon(a) ELSE a :
              a \in {[S EXCEPT !.area = 0]}})
    ELSE S

(* The updater undoLastPoint passes to setPoints; it reads the hook's mode *)
UndoEffects(S, prev, updated) ==
    Val({[s3 EXCEPT !.points = updated] :
         s3 \in {UndoUpdateArea(s2, updated, S.mode) :
                 s2 \in {UndoUpdateDistance(s1, updated, S.mode) :
                         s1 \in {UndoRemoveMarker(S, prev)}}}})

undoUpdater(S, prev) ==
    Val({UndoEffects(S, prev, updated) :
         updated \in {IF prev = <<>> THEN prev
                      ELSE SubSeq(prev, 1, Len(prev) - 1)}})

RECURSIVE EvalUndo(_, _, _)
EvalUndo(S, prev, n) ==
    IF n = 0 THEN S
    ELSE Val({EvalUndo(s1, prev, n - 1) : s1 \in {undoUpdater(S, prev)}})

(* An undo that ends the session when there is no point to remove *)
undoLastPointClearsWhenEmpty(S, n) ==
    IF Len(S.points) = 0 THEN clearMeasurement(S)
    ELSE EvalUndo(S, S.points, n)

(* undoLastPoint *)
undoLastPoint(S, n) ==
    IF Len(S.points) = 0 THEN S
    ELSE EvalUndo(S, S.points, n)

(* undoLastPoint called twice by the same render: both calls test the same *)
(* points.length, the second updater runs on the result of the first       *)
undoLastPointTwice(S, n, k) ==
    IF Len(S.points) = 0 THEN S
    ELSE Val({EvalUndo(s1, s1.points, k) : s1 \in {EvalUndo(S, S.points, n)}})

(* Every suspended startMeasurement call goes on, oldest first *)
RECURSIVE resumeAll(_)
resumeAll(S) ==
    IF S.pending = <<>> THEN S
    ELSE Val({resumeAll(s1) : s1 \in {startResume(S)}})

(* A finish that disposes the session, as clear does *)
finishMeasurementClears(S) == clearMeasurement(S)

(* finishMeasurement *)
finishMeasurement(S) ==
    IF ~S.map THEN S
    ELSE [S EXCEPT !.handlers = <<>>, !.otherListeners = 0, !.cursor = "",
                   !.mode = NullMode]

----------------------------------------------------------------------------
(* The state machine *)

Init ==
    /\ map = FALSE
    /\ mode = NullMode
    /\ points = <<>>
    /\ distance = 0
    /\ area = 0
    /\ polylineRef = NoLayer
    /\ polygonRef = NoLayer
    /\ markersRef = <<>>
    /\ layers = <<>>
    /\ handlers = <<>>
    /\ cursor = ""
    /\ pending = <<>>
    /\ otherListeners = 0
    /\ isOpen = FALSE
    /\ lastMeasurement = NoMeasurement
    /\ lastOp = "init"

(* The hook after an operation: S is the state the operation returned *)
HookBecomes(S, op) ==
    /\ map' = S.map
    /\ mode' = S.mode
    /\ points' = S.points
    /\ distance' = S.distance
    /\ area' = S.area
    /\ polylineRef' = S.polylineRef
    /\ polygonRef' = S.polygonRef
    /\ markersRef' = S.markersRef
    /\ layers' = S.layers
    /\ handlers' = S.handlers
    /\ cursor' = S.cursor
    /\ pending' = S.pending
    /\ otherListeners' = S.otherListeners
    /\ lastOp' = op

(* An operation of the hook that the panel takes no part in *)
Become(S, op) ==
    /\ HookBecomes(S, op)
    /\ UNCHANGED <<isOpen, lastMeasurement>>

(* LeafletMap registers the map instance with the context *)
SetMap ==
    /\ ~map
    /\ \E S \in {Cur} : Become([S EXCEPT !.map = TRUE], "setMap")

StartMeasurement ==
    \E m \in Modes :
        /\ Len(pending) < MaxPending
        /\ \E S \in {Cur} : \E R \in {startMeasurement(S, m)} :
              Become(R, "start")

StartResume ==
    /\ pending # <<>>
    /\ \E S \in {Cur} : \E R \in {startResume(S)} : Become(R, "resume")

MapClick ==
    \E c \in Coords, n \in EvalCounts :
        /\ map
        /\ \E S \in {Cur} :
              /\ Cardinality(MarkersOnMap(S)) + Len(handlers) <= MaxMarkers
              /\ \E R \in {mapClick(S, c, n)} : Become(R, "click")

UndoLastPoint ==
    \E n \in EvalCounts :
        \E S \in {Cur} : \E R \in {undoLastPoint(S, n)} : Become(R, "undo")

ClearMeasurement ==
    \E S \in {Cur} : \E R \in {clearMeasurement(S)} : Become(R, "clear")

FinishMeasurement ==
    \E S \in {Cur} : \E R \in {finishMeasurement(S)} : Become(R, "finish")

Next ==
    \/ SetMap
    \/ StartMeasurement
    \/ StartResume
    \/ MapClick
    \/ UndoLastPoint
    \/ ClearMeasurement
    \/ FinishMeasurement

Spec == Init /\ [][Next]_vars

----------------------------------------------------------------------------
(* The measurement panel (MapMeasurementPanel) driving the hook: the user  *)
(* opens the panel, presses its buttons and clicks on the map.  A button   *)
(* acts only while it is rendered and enabled.                             *)

(* handleModeSelect *)
handleModeSelect(S, selectedMode) ==
    IF S.mode = selectedMode
    THEN clearMeasurement(S)
    ELSE startMeasurement(S, selectedMode)

(* handleFinish, "Save the last measurement before finishing" *)
savedMeasurement(S, last) ==
    IF S.mode = "distance" /\ Len(S.points) > 1
    THEN [type |-> "distance", value |-> S.distance]
    ELSE IF S.mode = "area" /\ Len(S.points) > 2
    THEN [type |-> "area", value |-> S.area]
    ELSE last

(* The Done button's `disabled` attribute *)
FinishDisabled(S) ==
    \/ S.mode = "distance" /\ Len(S.points) < 2
    \/ S.mode = "area" /\ Len(S.points) < 3

SelectOp(m) == IF m = "distance" THEN "selectDistance" ELSE "selectArea"

(* MapMain: onMeasurementClick *)
OpenPanel ==
    /\ ~isOpen
    /\ isOpen' = TRUE
    /\ lastOp' = "open"
    /\ UNCHANGED <<map, mode, points, distance, area, polylineRef,
                   polygonRef, markersRef, layers, handlers, cursor,
                   pending, otherListeners, lastMeasurement>>

(* One of the two mode buttons *)
HandleModeSelect ==
    \E m \in Modes :
        /\ isOpen
        /\ mode = m \/ Len(pending) < MaxPending
        /\ \E S \in {Cur} : \E R \in {handleModeSelect(S, m)} :
              HookBecomes(R, SelectOp(m))
        /\ UNCHANGED <<isOpen, lastMeasurement>>

(* The close button: handleClose, then MapMain's onClose *)
HandleClose ==
    /\ isOpen
    /\ \E S \in {Cur} : \E R \in {clearMeasurement(S)} :
          HookBecomes(R, "close")
    /\ lastMeasurement' = NoMeasurement
    /\ isOpen' = FALSE

(* The Clear button, rendered while a mode is active: handleClear *)
HandleClear ==
    /\ isOpen
    /\ mode \in Modes
    /\ \E S \in {Cur} : \E R \in {clearMeasurement(S)} :
          HookBecomes(R, "clear")
    /\ lastMeasurement' = NoMeasurement
    /\ UNCHANGED isOpen

(* The Undo button, rendered while a mode is active, disabled without      *)
(* points                                                                  *)
HandleUndo ==
    /\ isOpen
    /\ mode \in Modes
    /\ Len(points) # 0
    /\ UndoLastPoint

(* The Done button: handleFinish *)
HandleFinish ==
    /\ isOpen
    /\ mode \in Modes
    /\ \E S \in {Cur} :
          /\ ~FinishDisabled(S)
          /\ lastMeasurement' = savedMeasurement(S, lastMeasurement)
          /\ \E R \in {finishMeasurement(S)} : HookBecomes(R, "finish")
    /\ UNCHANGED isOpen

PanelNext ==
    \/ SetMap
    \/ OpenPanel
    \/ HandleModeSelect
    \/ HandleClose
    \/ HandleClear
    \/ HandleUndo
    \/ HandleFinish
    \/ StartResume
    \/ MapClick

PanelSpec == Init /\ [][PanelNext]_vars

----------------------------------------------------------------------------
(* The hook on a map that other components listen to as well: the map      *)
(* instance is shared through the MapContext, and a component that holds   *)
(* it can register a click listener of its own once the map is available.  *)

OtherComponentSubscribes ==
    /\ map
    /\ lastOp \in {"setMap", "otherSubscribes"}
    /\ otherListeners < MaxOtherListeners
    /\ \E S \in {Cur} :
          Become([S EXCEPT !.otherListeners = @ + 1], "otherSubscribes")

SharedMapNext ==
    \/ Next
    \/ OtherComponentSubscribes

SharedMapSpec == Init /\ [][SharedMapNext]_vars

----------------------------------------------------------------------------
(* The hook on a map whose layer creation can fail: a click whose updater  *)
(* creates the overlay may find L.polyline / L.polygon throwing.  The      *)
(* exception leaves the updater inside React's state update; what React    *)
(* does with the component afterwards is not followed.                     *)

MapClickOverlayThrows ==
    \E c \in Coords :
        /\ map
        /\ Len(handlers) = 1
        /\ \E S \in {Cur} :
              /\ Cardinality(MarkersOnMap(S)) + Len(handlers) <= MaxMarkers
              /\ CreatesOverlay(S, handlers[1])
              /\ \E R \in {handleMapClickOverlayThrows(S, handlers[1], c)} :
                    Become(R, "clickThrew")

ResourceErrorNext ==
    \/ lastOp # "clickThrew" /\ Next
    \/ MapClickOverlayThrows

ResourceErrorSpec == Init /\ [][ResourceErrorNext]_vars

----------------------------------------------------------------------------
(* The geodesic functions on their own: calculateTotalDistance and         *)
(* calculateArea applied to every point list over RingCoords of at most    *)
(* MaxRing points, in the order given and in every rotation of it.         *)

(* A MeasurementPoint without a marker *)
PointAt(c) == [latlng |-> c, marker |-> NoLayer]

PointLists ==
    UNION {[1..n -> {PointAt(c) : c \in RingCoords}] : n \in 0..MaxRing}

(* [B, C, ..., A] for [A, B, C, ...] *)
Rotate(pts) == IF pts = <<>> THEN pts ELSE Append(Tail(pts), Head(pts))

GeoInit ==
    /\ map = FALSE
    /\ mode = NullMode
    /\ points \in PointLists
    /\ distance = 0
    /\ area = 0
    /\ polylineRef = NoLayer
    /\ polygonRef = NoLayer
    /\ markersRef = <<>>
    /\ layers = <<>>
    /\ handlers = <<>>
    /\ cursor = ""
    /\ pending = <<>>
    /\ otherListeners = 0
    /\ isOpen = FALSE
    /\ lastMeasurement = NoMeasurement
    /\ lastOp = "init"

(* dist = calculateTotalDistance(pts) *)
CalculateTotalDistance ==
    /\ lastOp = "init"
    /\ distance' = calculateTotalDistance(points)
    /\ lastOp' = "calculateTotalDistance"
    /\ UNCHANGED <<map, mode, points, area, polylineRef, polygonRef,
                   markersRef, layers, handlers, cursor, pending,
                   otherListeners, isOpen, lastMeasurement>>

(* calculatedArea = calculateArea(pts) *)
CalculateArea ==
    /\ lastOp = "init"
    /\ area' = calculateArea(points)
    /\ lastOp' = "calculateArea"
    /\ UNCHANGED <<map, mode, points, distance, polylineRef, polygonRef,
                   markersRef, layers, handlers, cursor, pending,
                   otherListeners, isOpen, lastMeasurement>>

(* calculateArea applied to the same ring started one vertex later *)
CalculateAreaRotated ==
    /\ lastOp \in {"calculateArea", "rotated"}
    /\ points' = Rotate(points)
    /\ area' = calculateArea(Rotate(points))
    /\ lastOp' = "rotated"
    /\ UNCHANGED <<map, mode, distance, polylineRef, polygonRef,
                   markersRef, layers, handlers, cursor, pending,
                   otherListeners, isOpen, lastMeasurement>>

(* updated = [...prev, newPoint] with newPoint at the coordinate of the    *)
(* last point of prev, then the two recomputations of the click updater    *)
CalculateWithDuplicate ==
    /\ lastOp = "init"
    /\ points # <<>>
    /\ points' = Append(points, points[Len(points)])
    /\ distance' = calculateTotalDistance(Append(points, points[Len(points)]))
    /\ area' = calculateArea(Append(points, points[Len(points)]))
    /\ lastOp' = "duplicate"
    /\ UNCHANGED <<map, mode, polylineRef, polygonRef,
                   markersRef, layers, handlers, cursor, pending,
                   otherListeners, isOpen, lastMeasurement>>

GeoNext ==
    \/ CalculateTotalDistance
    \/ CalculateArea
    \/ CalculateAreaRotated
    \/ CalculateWithDuplicate

GeoSpec == GeoInit /\ [][GeoNext]_vars

----------------------------------------------------------------------------
(* What an observer of the map and of the hook's return value sees *)

OverlaysOnMap(S) ==
    {id \in DOMAIN S.layers : S.layers[id].kind \in {"polyline", "polygon"}}

PolylinesOnMap(S) == {id \in DOMAIN S.layers : S.layers[id].kind = "polyline"}

PolygonsOnMap(S) == {id \in DOMAIN S.layers : S.layers[id].kind = "polygon"}

PointMarkers(S) == {S.points[i].marker : i \in 1..Len(S.points)}

(* The overlays on the map as kind and vertex list, without identity *)
OverlayShapes(S) == {S.layers[id] : id \in OverlaysOnMap(S)}

(* C1: after any sequence of operations, clear() leaves mode Inactive,     *)
(* no points, zero distance and area, no overlay and no marker on the map. *)
C1_ClearResetsFully ==
    (lastOp = "clear" /\ map) =>
        /\ mode = NullMode
        /\ points = <<>>
        /\ distance = 0
        /\ area = 0
        /\ OverlaysOnMap(Cur) = {}
        /\ MarkersOnMap(Cur) = {}

C3_StartResetsAndBegins ==
    lastOp = "resume" =>
        /\ handlers # <<>>
        /\ mode = handlers[Len(handlers)]
        /\ points = <<>>
        /\ distance = 0
        /\ area = 0
        /\ DOMAIN layers = {}

(* C4: while mode is Inactive a map click changes neither points, markers, *)
(* overlay nor the cumulative values.                                      *)
C4_InactiveClickIsNoOp ==
    mode = NullMode =>
        \A c \in Coords, n \in EvalCounts :
            \A after \in {mapClick(Cur, c, n)} :
               /\ after.points = points
               /\ after.layers = layers
               /\ after.distance = distance
               /\ after.area = area

(* C5: in Distance mode the polyline is on the map exactly when there are  *)
(* at least 2 points; in Area mode the polygon exactly when at least 3.    *)
C5_OverlayThreshold ==
    /\ mode = "distance" => (PolylinesOnMap(Cur) # {} <=> Len(points) >= 2)
    /\ mode = "area" => (PolygonsOnMap(Cur) # {} <=> Len(points) >= 3)

(* C6: at most one overlay (polyline or polygon) is on the map at any      *)
(* time, and none is left once start has disposed the prior session.       *)
C6_AtMostOneOverlay ==
    /\ Cardinality(OverlaysOnMap(Cur)) <= 1
    /\ (lastOp = "start" /\ map) => OverlaysOnMap(Cur) = {}

(* C7: while a mode is active, an overlay on the map has the points'       *)
(* coordinates in insertion order as its vertex list, and a click or undo  *)
(* that keeps the overlay keeps the same overlay instance.                 *)
C7_OverlayFollowsPoints ==
    [][/\ mode' \in Modes =>
            \A id \in OverlaysOnMap(Cur') :
                layers'[id].latlngs = LatLngsOf(points')
       /\ (/\ mode \in Modes /\ mode' = mode
           /\ lastOp' \in {"click", "undo"}
           /\ OverlaysOnMap(Cur) # {} /\ OverlaysOnMap(Cur') # {})
          => OverlaysOnMap(Cur') = OverlaysOnMap(Cur)]_vars

(* C8: the markers on the map are exactly the markers of the current       *)
(* points, one distinct marker per point at the point's coordinate.        *)
C8_MarkersOwnedByPoints ==
    /\ MarkersOnMap(Cur) = PointMarkers(Cur)
    /\ Cardinality(MarkersOnMap(Cur)) = Len(points)
    /\ \A i \in 1..Len(points) :
          /\ hasLayer(Cur, points[i].marker)
          /\ layers[points[i].marker].latlngs = <<points[i].latlng>>

(* C9: in an active mode, a click that adds a point followed at once by    *)
(* undoLastPoint() restores points, distance, area and the overlay         *)
(* (presence and vertex list).                                             *)
C9_UndoInvertsAdd ==
    (mode \in Modes /\ handlers # <<>>) =>
        \A c \in Coords, n \in EvalCounts, k \in EvalCounts :
            \A after \in {undoLastPoint(Val({S : S \in {mapClick(Cur, c, n)}}), k)} :
               /\ after.points = points
               /\ after.distance = distance
               /\ after.area = area
               /\ OverlayShapes(after) = OverlayShapes(Cur)

(* C10: distance is zero unless mode is Distance with at least 2 points,   *)
(* area is zero unless mode is Area with at least 3 points.                *)
C10_CumulativeZeroOutsideMode ==
    /\ distance # 0 => (mode = "distance" /\ Len(points) >= 2)
    /\ area # 0 => (mode = "area" /\ Len(points) >= 3)

(* C11: whenever mode is Distance, distance equals the value recomputed    *)
(* from points: the sum of the pairwise distances over consecutive points  *)
(* in insertion order, zero below 2 points.                                *)
C11_DistanceIsRecomputation ==
    mode = "distance" => distance = calculateTotalDistance(points)

(* C12: a click that adds points in Distance mode raises distance by the   *)
(* pairwise distance from the previous last point to each added point, so  *)
(* distance never decreases on a click.                                    *)
C12_DistanceMonotone ==
    [][(/\ lastOp' = "click"
        /\ mode = "distance" /\ mode' = "distance"
        /\ Len(points') > Len(points) /\ Len(points') >= 2)
       => /\ distance' = distance
                + SumDistance(points', IF points = <<>> THEN 1 ELSE Len(points))
          /\ distance' >= distance]_vars

(* C13: whenever mode is Area, area equals the shoelace sum over points as *)
(* a closed ring (the successor of the last point is the first), in        *)
(* absolute value and scaled by R^2 / 2, zero below 3 points.              *)
C13_AreaIsRingShoelace ==
    mode = "area" => area = calculateArea(points)

(* C14: the polygon area does not depend on the vertex the ring starts at: *)
(* calculateArea gives the same value for a point list and for every       *)
(* rotation of it.                                                         *)
C14_AreaRotationInvariant ==
    [][lastOp' = "rotated" => area' = area]_vars

(* C14 witness: a ring of three distinct vertices with a non-zero area has *)
(* been rotated                                                            *)
C14_Witness ==
    /\ lastOp = "rotated"
    /\ Len(points) = 3
    /\ Cardinality(Range(LatLngsOf(points))) = 3
    /\ area > 0

(* C15: clear() is idempotent: a second clear() right after a clear(), or  *)
(* a clear() in the initial state, leaves mode, points, the cumulative     *)
(* values, the markers, the overlay and the click listeners as they are.   *)
C15_ClearIdempotent ==
    \A once \in {clearMeasurement(Cur)} : clearMeasurement(once) = once

(* C15 witness: a session with points, an overlay and a click listener,    *)
(* which the first clear() disposes                                        *)
C15_Witness ==
    /\ Len(points) >= 2
    /\ OverlaysOnMap(Cur) # {}
    /\ handlers # <<>>
    /\ clearMeasurement(Cur) # Cur

(* C16: undoLastPoint() without points changes nothing, also as the second *)
(* of two calls made with exactly one point left.                          *)
C16_UndoOnEmptyIsNoOp ==
    /\ Len(points) = 0 =>
          \A n \in EvalCounts : undoLastPoint(Cur, n) = Cur
    /\ Len(points) = 1 =>
          \A n \in EvalCounts, k \in EvalCounts :
              \A once \in {undoLastPoint(Cur, n)} :
                 /\ undoLastPoint(once, k) = once
                 /\ undoLastPointTwice(Cur, n, k) = once

(* C16 witness: an active session whose only point an undo has removed     *)
C16_Witness ==
    /\ lastOp = "undo"
    /\ mode \in Modes
    /\ handlers # <<>>
    /\ points = <<>>

(* C17: when creating the overlay fails during a click, the point addition *)
(* stands: points has grown by the new point, whose marker is the newest   *)
(* marker and is on the map, and markers and points still correspond.      *)
C17_OverlayFailureKeepsPoint ==
    [][lastOp' = "clickThrew" =>
        /\ Len(points') = Len(points) + 1
        /\ SubSeq(points', 1, Len(points)) = points
        /\ hasLayer(Cur', points'[Len(points')].marker)
        /\ markersRef' = Append(markersRef, points'[Len(points')].marker)
        /\ Len(markersRef') - Len(points') = Len(markersRef) - Len(points)]_vars

(* C18: the hook starts Inactive with no points and no overlay, and no     *)
(* state is terminal: in every state with the map available, start(m)      *)
(* followed by the resolution of the module loads leaves mode = m, no      *)
(* points and a click listener registered for m.                           *)
C18_StartAlwaysPossible ==
    /\ lastOp = "init" =>
          /\ mode = NullMode
          /\ points = <<>>
          /\ OverlaysOnMap(Cur) = {}
    /\ map =>
          \A m \in Modes :
              \A started \in {resumeAll(startMeasurement(Cur, m))} :
                 /\ started.mode = m
                 /\ started.points = <<>>
                 /\ started.pending = <<>>
                 /\ started.handlers # <<>>
                 /\ started.handlers[Len(started.handlers)] = m

(* C18 witness: a finished session, Inactive with its points still shown,  *)
(* from which a new session can start                                      *)
C18_Witness ==
    /\ lastOp = "finish"
    /\ map
    /\ mode = NullMode
    /\ points # <<>>
    /\ handlers = <<>>

(* C19: the total distance of the path (0,0), (0,1) is the haversine       *)
(* distance of one degree of longitude at the equator with R = 6371 km:    *)
(* 111195 m within 1 %.                                                    *)
C19_OneDegreeAtEquator ==
    (/\ lastOp = "calculateTotalDistance"
     /\ LatLngsOf(points) = <<<<0, 0>>, <<0, 1>>>>)
        => Abs(distance - 111195) * 100 <= 111195

(* C19 witness: calculateTotalDistance has been applied to that path *)
C19_Witness ==
    /\ lastOp = "calculateTotalDistance"
    /\ LatLngsOf(points) = <<<<0, 0>>, <<0, 1>>>>
    /\ distance > 0

(* C20: a click delivered to the hook while a mode is active appends       *)
(* exactly one point, at the end of points and at the clicked coordinate,  *)
(* puts exactly one new marker on the map at that coordinate, and keeps    *)
(* the earlier points as they were.                                        *)
C20_ClickAppendsOnePoint ==
    [][(lastOp' = "click" /\ mode \in Modes /\ handlers # <<>>) =>
        /\ Len(points') = Len(points) + 1
        /\ SubSeq(points', 1, Len(points)) = points
        /\ \E c \in Coords :
              /\ points'[Len(points')].latlng = c
              /\ hasLayer(Cur', points'[Len(points')].marker)
              /\ layers'[points'[Len(points')].marker].latlngs = <<c>>
        /\ MarkersOnMap(Cur') =
              MarkersOnMap(Cur) \cup {points'[Len(points')].marker}
        /\ points'[Len(points')].marker \notin MarkersOnMap(Cur)]_vars

(* C21: undoLastPoint() in an active mode with points removes exactly the  *)
(* last point and takes its marker off the map, keeps the prefix,          *)
(* recomputes the cumulative value of the mode from the remaining points,  *)
(* and removes the overlay exactly when fewer points remain than the       *)
(* mode's threshold (2 for Distance, 3 for Area); otherwise the overlay    *)
(* stays and has the remaining points as its vertices.                     *)
C21_UndoRemovesLastPoint ==
    [][(lastOp' = "undo" /\ mode \in Modes /\ Len(points) > 0) =>
        /\ points' = SubSeq(points, 1, Len(points) - 1)
        /\ ~hasLayer(Cur', points[Len(points)].marker)
        /\ mode = "distance" => distance' = calculateTotalDistance(points')
        /\ mode = "area" => area' = calculateArea(points')
        /\ IF Len(points') < (IF mode = "distance" THEN 2 ELSE 3)
           THEN OverlaysOnMap(Cur') = {}
           ELSE /\ OverlaysOnMap(Cur') = OverlaysOnMap(Cur)
                /\ \A id \in OverlaysOnMap(Cur') :
                      layers'[id].latlngs = LatLngsOf(points')]_vars

C23_TogglePolicy ==
    [][\A m \in Modes :
         lastOp' = SelectOp(m) =>
            IF mode = m
            THEN /\ Cur' = clearMeasurement(Cur)
                 /\ mode' = NullMode
                 /\ points' = <<>>
                 /\ DOMAIN layers' = {}
            ELSE Cur' = startMeasurement(Cur, m)]_vars

(* C24: while the panel is closed, mode is Inactive, there are no points,  *)
(* no marker or overlay is on the map and no click listener of the hook is *)
(* registered, so a map click creates no point.                            *)
C24_ClosedPanelHasNoSession ==
    ~isOpen =>
        /\ mode = NullMode
        /\ points = <<>>
        /\ DOMAIN layers = {}
        /\ handlers = <<>>
        /\ \A c \in Coords, n \in EvalCounts :
              mapClick(Cur, c, n).points = <<>>

(* C25: at most one click handler of the hook is registered on the map at  *)
(* any time, so one map click never appends more than one point.           *)
C25_AtMostOneHandler ==
    /\ Len(handlers) <= 1
    /\ \A c \in Coords, n \in EvalCounts :
          Len(mapClick(Cur, c, n).points) <= Len(points) + 1

(* C26: every registered click handler was registered for the mode the     *)
(* hook reports.                                                           *)
C26_HandlerModeIsReportedMode ==
    \A i \in 1..Len(handlers) : handlers[i] = mode

(* C27: clear() and finish() leave the click listeners of other components *)
(* registered.                                                             *)
C27_OtherListenersSurvive ==
    [][lastOp' \in {"clear", "finish"} =>
          otherListeners' = otherListeners]_vars

(* C28: in every reachable state an overlay on the map has the points'     *)
(* coordinates as its vertex list, and the cumulative value the overlay    *)
(* stands for equals the value recomputed from points.                     *)
C28_OverlayAndValueFollowPoints ==
    /\ \A id \in OverlaysOnMap(Cur) : layers[id].latlngs = LatLngsOf(points)
    /\ PolylinesOnMap(Cur) # {} => distance = calculateTotalDistance(points)
    /\ PolygonsOnMap(Cur) # {} => area = calculateArea(points)

(* C29: whenever the panel shows a saved measurement (mode Inactive and    *)
(* lastMeasurement set), that measurement is still on the map: its points  *)
(* and its overlay are present, and the saved type and value are the       *)
(* overlay's kind and the hook's cumulative value.                         *)
C29_SavedMeasurementIsOnMap ==
    (mode = NullMode /\ lastMeasurement # NoMeasurement) =>
        /\ lastMeasurement.type = "distance" =>
              /\ Len(points) >= 2
              /\ PolylinesOnMap(Cur) # {}
              /\ lastMeasurement.value = distance
        /\ lastMeasurement.type = "area" =>
              /\ Len(points) >= 3
              /\ PolygonsOnMap(Cur) # {}
              /\ lastMeasurement.value = area

(* C30: markersRef holds exactly the markers of the current points, in the *)
(* same order and of the same length.                                      *)
C30_MarkersRefMatchesPoints ==
    markersRef = [i \in 1..Len(points) |-> points[i].marker]

====
